---- MODULE Spec2Model ----
(***************************************************************************)
(* A model of tash (src/tash.c): the read / tokenize / dispatch loop of    *)
(* the interpreter, its builtin table and the fork / execvp / waitpid      *)
(* protocol of tash_launch.                                                *)
(*                                                                         *)
(* Characters are their ASCII codes.  A C string is the sequence of its    *)
(* characters before the terminating NUL.  Every process that runs the     *)
(* tash image has its own copy of the locals of tash_loop, tash_read_line  *)
(* and tash_launch; standard input is one open file description shared by  *)
(* all of them (fork shares the offset).  Input is a terminal: a read      *)
(* delivers one line, so no process holds read-ahead characters in its     *)
(* stdio buffer when it forks.  tash_split_line's tokens are kept as the   *)
(* strings they point to; the NULL sentinel of the vector is the end of    *)
(* the sequence.                                                           *)
(***************************************************************************)
EXTENDS Integers, Sequences, FiniteSets, TLC

(***************************************************************************)
(* Characters and program constants                                        *)
(***************************************************************************)
NUL == 0
BEL == 7
TAB == 9
LF == 10
CR == 13
SP == 32
EOF == 0 - 1

EXIT_SUCCESS == 0
EXIT_FAILURE == 1

tash_RL_BUFSIZE == 1024
tash_TOK_BUFSIZE == 64

\* A delimiter string that lacks the bell
tash_TOK_DELIM_nobell == {SP, TAB, CR, LF}

\* #define tash_TOK_DELIM " \t\r\n\a"
tash_TOK_DELIM == {SP, TAB, CR, LF, BEL}

\* "cd", "help", "exit" and a few other words of the inputs, as C strings
S_cd == <<99, 100>>
S_help == <<104, 101, 108, 112>>
S_exit == <<101, 120, 105, 116>>
S_ls == <<108, 115>>
S_d == <<100>>
S_Exit == <<69, 120, 105, 116>>

\* char *builtin_str[]
builtin_str == <<S_cd, S_help, S_exit>>

\* int (*builtin_func[]) (char **): the functions the table points to
builtin_func == <<"cd", "help", "exit">>

tash_num_builtins == Len(builtin_str)

(***************************************************************************)
(* Bounds of the model                                                     *)
(***************************************************************************)
MaxProcs == 3
MaxLines == 2
MaxSpin == 3
MaxGrow == 2
MaxTokens == 129
MaxSplitLen == 5

(***************************************************************************)
(* strtok and tash_split_line                                              *)
(***************************************************************************)
\* A strspn that skips nothing
strspn_none(s, i, delim) == 0

\* strspn(s + i - 1, delim): the length of the run of delimiters at index i
RECURSIVE strspn(_, _, _)
strspn(s, i, delim) ==
  IF i <= Len(s) /\ s[i] \in delim THEN 1 + strspn(s, i + 1, delim) ELSE 0

\* strcspn(s + i - 1, delim): the length of the run of non-delimiters at i
RECURSIVE strcspn(_, _, _)
strcspn(s, i, delim) ==
  IF i <= Len(s) /\ s[i] \notin delim THEN 1 + strcspn(s, i + 1, delim) ELSE 0

\* One call of strtok on the string s with the saved pointer at index save
\* (1 .. Len(s) + 1, where Len(s) + 1 is the terminating NUL).  Skips the
\* leading delimiters; at the NUL there is no token; else the token runs to
\* the next delimiter, which is overwritten by NUL, and the saved pointer
\* moves past it (or stays on the final NUL).
strtok(s, save, delim) ==
  LET start == save + strspn(s, save, delim)
      end == start + strcspn(s, start, delim)
  IN IF start > Len(s)
       THEN [found |-> FALSE, token |-> <<>>, save |-> start]
       ELSE [found |-> TRUE,
             token |-> SubSeq(s, start, end - 1),
             save |-> IF end > Len(s) THEN end ELSE end + 1]

\* The locals of tash_split_line: the saved pointer of strtok, the tokens
\* stored so far (position = Len(tokens)), the capacity bufsize, and done
\* once the NULL sentinel is stored.  On entry: bufsize = tash_TOK_BUFSIZE,
\* position = 0, strtok starts at the head of the line.
split_enter ==
  [save |-> 1, tokens |-> <<>>, bufsize |-> tash_TOK_BUFSIZE, done |-> FALSE]

\* An iteration without its position++: every token lands in tokens[0]
split_step_nostep(line, st) ==
  LET t == strtok(line, st.save, tash_TOK_DELIM)
  IN IF ~t.found
       THEN [st EXCEPT !.done = TRUE]
       ELSE [st EXCEPT !.save = t.save, !.tokens = <<t.token>>]

\* An iteration growing one token late (position > bufsize)
split_step_late(line, st) ==
  LET t == strtok(line, st.save, tash_TOK_DELIM)
      position == Len(st.tokens) + 1
  IN IF ~t.found
       THEN [st EXCEPT !.done = TRUE]
       ELSE [st EXCEPT !.save = t.save,
                       !.tokens = Append(@, t.token),
                       !.bufsize = IF position > @
                                     THEN @ + tash_TOK_BUFSIZE ELSE @]

\* An iteration doubling the capacity when it is exhausted
split_step_double(line, st) ==
  LET t == strtok(line, st.save, tash_TOK_DELIM)
      position == Len(st.tokens) + 1
  IN IF ~t.found
       THEN [st EXCEPT !.done = TRUE]
       ELSE [st EXCEPT !.save = t.save,
                       !.tokens = Append(@, t.token),
                       !.bufsize = IF position >= @ THEN @ * 2 ELSE @]

\* One iteration of the while loop of tash_split_line, from the strtok that
\* fetched its token: tokens[position] = token; position++; grow the array
\* by tash_TOK_BUFSIZE when position >= bufsize.  When strtok finds no
\* more: tokens[position] = NULL and the function returns.
split_step(line, st) ==
  LET t == strtok(line, st.save, tash_TOK_DELIM)
      position == Len(st.tokens) + 1
  IN IF ~t.found
       THEN [st EXCEPT !.done = TRUE]
       ELSE [st EXCEPT !.save = t.save,
                       !.tokens = Append(@, t.token),
                       !.bufsize = IF position >= @
                                     THEN @ + tash_TOK_BUFSIZE ELSE @]

\* The while loop run to its end
RECURSIVE split_loop(_, _)
split_loop(line, st) ==
  IF st.done THEN st ELSE split_loop(line, split_step(line, st))

\* tash_split_line(line), allocations succeeding: the token vector (the NULL
\* sentinel is the end of the sequence) and the final capacity.
tash_split_line(line) == split_loop(line, split_enter)

\* The C string held by a buffer: the characters before the first NUL.
CStr(buffer) ==
  LET nuls == { i \in 1 .. Len(buffer) : buffer[i] = NUL }
  IN IF nuls = {} THEN buffer
     ELSE SubSeq(buffer, 1, (CHOOSE i \in nuls : \A j \in nuls : i <= j) - 1)

(***************************************************************************)
(* State                                                                   *)
(***************************************************************************)
VARIABLES
  stdin,      \* the characters of standard input, in order; then end-of-input
  offset,     \* how many of them have been consumed (shared file offset)
  proc,       \* per process: control point and the locals of its tash image
  executed,   \* number of calls of tash_execute so far
  builtins,   \* number of builtin functions invoked through builtin_func
  forked      \* number of successful fork() calls

vars == <<stdin, offset, proc, executed, builtins, forked>>

Procs == 1 .. MaxProcs

\* The low byte of a malloc'ed pointer (16-byte aligned), which is what the
\* status of exit((int) args) keeps of its argument.
PtrLowBytes == {16 * k : k \in 0 .. 15}

\* Statuses with which an external program may exit.
ExtCodes == {0, 1}

\* The working directory a process starts in: "/"
RootDir == <<47>>

\* A process before anything has run in it.  status is the local of
\* tash_loop, unassigned until the first tash_execute returns.
NoProc ==
  [pc |-> "unborn", buffer |-> <<>>, buffer_null |-> FALSE, position |-> 0,
   bufsize |-> 0, args |-> <<>>, status |-> 0 - 1, cwd |-> RootDir,
   pid |-> 0, term |-> "none", code |-> 0, why |-> "none",
   eofSeen |-> FALSE, execFailed |-> FALSE, stopSeen |-> FALSE,
   chdir |-> "none", called |-> "none", retried |-> FALSE,
   line_mem |-> "none", args_mem |-> "none",
   split |-> [save |-> 0, tokens |-> <<>>, bufsize |-> 0, done |-> FALSE]]

\* main() entered: about to run tash_loop
MainProc == [NoProc EXCEPT !.pc = "prompt"]

\* The lines a user may type (without their newline)
InputLines ==
  { <<>>, <<SP, TAB>>,
    S_exit,
    S_cd, S_cd \o <<SP, SP>> \o S_d,
    S_help, S_ls, S_Exit }

\* An unterminated last line: nothing, or "exit" with no newline after it
Tails == { <<>>, S_exit }

RECURSIVE StreamsOf(_)
StreamsOf(n) ==
  IF n = 0 THEN { <<>> }
  ELSE { l \o <<LF>> \o s : l \in InputLines, s \in StreamsOf(n - 1) }

Streams ==
  { s \o t : s \in UNION { StreamsOf(n) : n \in 0 .. MaxLines }, t \in Tails }

Init ==
  /\ stdin \in Streams
  /\ offset = 0
  /\ proc = [p \in Procs |-> IF p = 1 THEN MainProc ELSE NoProc]
  /\ executed = 0
  /\ builtins = 0
  /\ forked = 0

(***************************************************************************)
(* Process termination                                                     *)
(***************************************************************************)
\* The process image is gone: exit(code) or _exit
Exited(r, code, why) ==
  [NoProc EXCEPT !.pc = "terminated", !.term = "exited", !.code = code,
                 !.why = why, !.cwd = r.cwd,
                 !.eofSeen = r.eofSeen, !.execFailed = r.execFailed]

\* The process was killed by a signal
Signaled(r, why) ==
  [NoProc EXCEPT !.pc = "terminated", !.term = "signaled", !.why = why,
                 !.cwd = r.cwd,
                 !.eofSeen = r.eofSeen, !.execFailed = r.execFailed]

\* int tash_exit(char **args) { return 0; }: the caller goes on
tash_exit(r) == r

(***************************************************************************)
(* tash_read_line                                                          *)
(***************************************************************************)
\* A write through a NULL pointer: the kernel kills the process (SIGSEGV)
Segv(r) == Signaled(r, "segv")

\* Entry of tash_read_line: bufsize = tash_RL_BUFSIZE, position = 0 and
\* buffer = malloc(bufsize).  On NULL the error is printed and
\* tash_exit(EXIT_FAILURE) returns, so the function goes on with it.
read_line_enter(r) ==
  { tash_exit([r EXCEPT !.pc = "read_line", !.bufsize = tash_RL_BUFSIZE,
                        !.position = 0, !.buffer = <<>>, !.buffer_null = null,
                        !.line_mem = IF null THEN "none" ELSE "live"])
    : null \in BOOLEAN }

\* A growth by calloc instead of realloc: what was read so far is lost
read_line_grow_fresh(r) ==
  IF r.position >= r.bufsize
    THEN { tash_exit([r EXCEPT !.bufsize = r.bufsize + tash_RL_BUFSIZE,
                               !.buffer = [i \in 1 .. Len(r.buffer) |-> NUL],
                               !.buffer_null = null])
           : null \in BOOLEAN }
    ELSE { r }

\* A growth that comes one character late (> for >=)
read_line_grow_late(r) ==
  IF r.position > r.bufsize
    THEN { tash_exit([r EXCEPT !.bufsize = r.bufsize + tash_RL_BUFSIZE,
                               !.buffer_null = null])
           : null \in BOOLEAN }
    ELSE { r }

\* if (position >= bufsize) { bufsize += tash_RL_BUFSIZE; buffer = realloc }
\* A failed realloc leaves buffer NULL; tash_exit(EXIT_FAILURE) returns.
read_line_grow(r) ==
  IF r.position >= r.bufsize
    THEN { tash_exit([r EXCEPT !.bufsize = r.bufsize + tash_RL_BUFSIZE,
                               !.buffer_null = null])
           : null \in BOOLEAN }
    ELSE { r }

\* buffer[position] = c.  The cells are written in order, so the write
\* lands at the end of what has been stored (cells skipped after an
\* end-of-input hold no character and are stored as NUL).
RECURSIVE store(_, _, _)
store(buffer, position, c) ==
  IF position < Len(buffer) THEN [buffer EXCEPT ![position + 1] = c]
  ELSE IF position = Len(buffer) THEN Append(buffer, c)
  ELSE store(Append(buffer, NUL), position, c)

\* One iteration of while (1) in tash_read_line with c = getchar():
\*   EOF   tash_exit(EXIT_SUCCESS) returns; position++; maybe grow
\*   '\n'  buffer[position] = '\0'; return buffer
\*   else  buffer[position] = c; position++; maybe grow
read_line_step(r, c) ==
  IF c = EOF
    THEN read_line_grow([tash_exit(r) EXCEPT !.eofSeen = TRUE,
                                             !.position = r.position + 1])
  ELSE IF r.buffer_null
    THEN { Segv(r) }
  ELSE IF c = LF
    THEN { [r EXCEPT !.buffer = store(r.buffer, r.position, NUL),
                     !.pc = "split_line"] }
  ELSE read_line_grow([r EXCEPT !.buffer = store(r.buffer, r.position, c),
                                !.position = r.position + 1])

\* int getchar(void) on the shared stream
getchar == IF offset < Len(stdin) THEN stdin[offset + 1] ELSE EOF

\* tash_loop: the prompt is printed and tash_read_line is entered
Prompt(p) ==
  /\ proc[p].pc = "prompt"
  /\ \E r \in read_line_enter(proc[p]) : proc' = [proc EXCEPT ![p] = r]
  /\ UNCHANGED <<stdin, offset, executed, builtins, forked>>

\* One getchar() and the rest of that iteration of the reader's loop.  The
\* iterations that follow an end-of-input are cut off after MaxSpin.
ReadChar(p) ==
  /\ proc[p].pc = "read_line"
  /\ proc[p].eofSeen => proc[p].position < Len(proc[p].buffer) + MaxSpin
  /\ \E r \in read_line_step(proc[p], getchar) : proc' = [proc EXCEPT ![p] = r]
  /\ offset' = IF getchar = EOF THEN offset ELSE offset + 1
  /\ UNCHANGED <<stdin, executed, builtins, forked>>

(***************************************************************************)
(* tash_split_line in the loop                                             *)
(***************************************************************************)
\* tokens = malloc(...) or, on growth, realloc(...): on NULL the error is
\* printed, tash_exit returns and the next write tokens[position] goes
\* through the NULL pointer.
split_line_call(r) ==
  { IF null THEN Segv(r)
    ELSE [r EXCEPT !.args = tash_split_line(CStr(r.buffer)).tokens,
                   !.args_mem = "live",
                   !.pc = "execute"]
    : null \in BOOLEAN }

\* Entry of tash_split_line taken on its own: tokens = malloc(...)
SplitEnter(p) ==
  LET r == proc[p]
  IN /\ r.pc = "split_line"
     /\ \E null \in BOOLEAN :
          proc' = [proc EXCEPT ![p] =
            IF null THEN Segv(r)
            ELSE [r EXCEPT !.split = split_enter, !.args_mem = "live",
                           !.pc = "split_loop"]]
     /\ UNCHANGED <<stdin, offset, executed, builtins, forked>>

\* One iteration of the tokenizer's loop taken on its own; a growth is a
\* realloc that can return NULL; the last one stores the sentinel and
\* returns the vector to tash_loop.
SplitStep(p) ==
  LET r == proc[p]
      st == split_step(CStr(r.buffer), r.split)
  IN /\ r.pc = "split_loop"
     /\ \E null \in (IF st.bufsize # r.split.bufsize THEN BOOLEAN ELSE {FALSE}) :
          proc' = [proc EXCEPT ![p] =
            IF null THEN Segv(r)
            ELSE IF st.done
              THEN [r EXCEPT !.split = st, !.args = st.tokens, !.pc = "execute"]
            ELSE [r EXCEPT !.split = st]]
     /\ UNCHANGED <<stdin, offset, executed, builtins, forked>>

SplitLine(p) ==
  /\ proc[p].pc = "split_line"
  /\ \E r \in split_line_call(proc[p]) : proc' = [proc EXCEPT ![p] = r]
  /\ UNCHANGED <<stdin, offset, executed, builtins, forked>>

(***************************************************************************)
(* Builtins                                                                *)
(***************************************************************************)
\* What a call through builtin_func does to the calling process: it returns
\* ret with the working directory cwd, or the process exits with code.
\* chdir records what the chdir() of this call returned, if it made one.
Returns(ret, cwd) ==
  [exits |-> FALSE, ret |-> ret, code |-> 0, cwd |-> cwd, chdir |-> "none"]
Exits(code, cwd) ==
  [exits |-> TRUE, ret |-> 0, code |-> code, cwd |-> cwd, chdir |-> "none"]

\* int chdir(const char *path): 0 and the working directory is path, or -1
\* and it is what it was
chdir(path, cwd) ==
  { [rc |-> "ok", cwd |-> path], [rc |-> "failed", cwd |-> cwd] }

\* A cd that does not look at what chdir returned
cd_unchecked(args, cwd) ==
  IF Len(args) < 2 THEN { Returns(1, cwd) }
  ELSE { [Returns(1, args[2]) EXCEPT !.chdir = x.rc] : x \in chdir(args[2], cwd) }

\* int cd(char **args): args[1] == NULL is a usage error; chdir(args[1])
\* succeeds or fails as the file system decides.  Always returns 1.
cd(args, cwd) ==
  IF Len(args) < 2 THEN { Returns(1, cwd) }
  ELSE { [Returns(1, x.cwd) EXCEPT !.chdir = x.rc] : x \in chdir(args[2], cwd) }

\* int help(char **args): prints, returns 1
help(args, cwd) == { Returns(1, cwd) }

\* void exit(int) of the C library, reached through an int (*)(char **): the
\* int it reads is the low half of the pointer args, and the exit status is
\* the low byte of that.  It does not return.
exit(args, cwd) == { Exits(b, cwd) : b \in PtrLowBytes }

\* (*builtin_func[i])(args)
call_builtin(f, args, cwd) ==
  CASE f = "cd" -> cd(args, cwd)
    [] f = "help" -> help(args, cwd)
    [] f = "exit" -> exit(args, cwd)

\* strcasecmp: a comparison that takes A..Z for a..z
strcasecmp(a, b) ==
  LET lower(s) == [i \in 1 .. Len(s) |->
                     IF s[i] \in 65 .. 90 THEN s[i] + 32 ELSE s[i]]
  IN IF lower(a) = lower(b) THEN 0 ELSE 1

\* strcmp(a, b) == 0 exactly when the two C strings are equal
strcmp(a, b) == IF a = b THEN 0 ELSE 1

\* for (i = 0; i < tash_num_builtins(); i++) if (strcmp(...) == 0): the
\* first matching index (1-based), 0 when the loop ends without a match
builtin_index(args) ==
  LET hits == { i \in 1 .. tash_num_builtins : strcmp(args[1], builtin_str[i]) = 0 }
  IN IF hits = {} THEN 0 ELSE CHOOSE i \in hits : \A j \in hits : i <= j

(***************************************************************************)
(* tash_execute and tash_launch                                            *)
(***************************************************************************)
\* status = tash_execute(args) in tash_loop; free() comes next
execute_returns(r, ret) == [r EXCEPT !.status = ret, !.pc = "free"]

\* A tash_launch that gives up (returns 0) when fork fails
tash_launch_return_forkfatal(path) == IF path = "fork_failed" THEN 0 ELSE 1

\* The value of "return 1" at the end of tash_launch, on each of its paths:
\* "fork_failed", "child" (execvp failed in the child), "waited" (parent)
tash_launch_return(path) == 1

\* The pid fork() gives the next child: the first unused one, 0 when the
\* process table is full
NextPid ==
  LET unborn == { c \in Procs : proc[c].pc = "unborn" }
  IN IF unborn = {} THEN 0 ELSE CHOOSE c \in unborn : \A d \in unborn : c <= d

\* tash_execute(args) up to the point where it returns or where tash_launch
\* has forked and the parent blocks in waitpid.
Execute(p) ==
  LET r == proc[p]
      i == builtin_index(r.args)
  IN /\ r.pc = "execute"
     /\ executed' = executed + 1
     /\ IF r.args = <<>>
          THEN \* args[0] == NULL: an empty command
               /\ proc' = [proc EXCEPT ![p] = execute_returns(r, 1)]
               /\ UNCHANGED <<builtins, forked>>
        ELSE IF i > 0
          THEN \* return (*builtin_func[i])(args)
               /\ \E o \in call_builtin(builtin_func[i], r.args, r.cwd) :
                    proc' = [proc EXCEPT ![p] =
                      IF o.exits
                        THEN [Exited(r, o.code, "exit_builtin")
                                EXCEPT !.called = builtin_func[i]]
                      ELSE execute_returns([r EXCEPT !.cwd = o.cwd,
                                                     !.chdir = o.chdir,
                                                     !.called = builtin_func[i]],
                                           o.ret)]
               /\ builtins' = builtins + 1
               /\ UNCHANGED forked
        ELSE \* return tash_launch(args)
             \/ \* pid < 0: perror, return 1
                /\ proc' = [proc EXCEPT ![p] =
                     execute_returns([r EXCEPT !.called = "tash_launch"],
                                     tash_launch_return("fork_failed"))]
                /\ UNCHANGED <<builtins, forked>>
             \/ \* pid > 0 in the parent, pid == 0 in the child
                /\ NextPid # 0
                /\ proc' = [proc EXCEPT
                     ![p] = [r EXCEPT !.pc = "launch_wait", !.pid = NextPid,
                                      !.called = "tash_launch"],
                     ![NextPid] = [r EXCEPT !.pc = "launch_child", !.pid = 0,
                                            !.execFailed = FALSE,
                                            !.called = "tash_launch"]]
                /\ forked' = forked + 1
                /\ UNCHANGED builtins
     /\ UNCHANGED <<stdin, offset>>

\* The child of tash_launch: execvp(args[0], args).  On success the image is
\* replaced by the external program.  On -1: perror, tash_exit(EXIT_FAILURE)
\* returns, and the child falls through to "return 1".
ChildExec(c) ==
  LET r == proc[c]
  IN /\ r.pc = "launch_child"
     /\ \/ proc' = [proc EXCEPT ![c] =
                      [NoProc EXCEPT !.pc = "external", !.cwd = r.cwd]]
        \/ proc' = [proc EXCEPT ![c] =
                      execute_returns(tash_exit([r EXCEPT !.execFailed = TRUE]),
                                      tash_launch_return("child"))]
     /\ UNCHANGED <<stdin, offset, executed, builtins, forked>>

\* What waitpid(pid, &status, WUNTRACED) can report about the child c now:
\* its termination (WIFEXITED or WIFSIGNALED), or a stop not yet reported
waitpid(c) ==
  IF proc[c].pc = "terminated" THEN { proc[c].term }
  ELSE IF proc[c].pc = "ext_stopped" /\ ~proc[c].stopSeen THEN { "stopped" }
  ELSE {}

\* A do/while that takes whatever waitpid reports as the end of the child
launch_wait_once(w) == FALSE

\* while (!WIFEXITED(status) && !WIFSIGNALED(status))
launch_wait_again(w) == ~(w = "exited") /\ ~(w = "signaled")

\* The parent of tash_launch: one iteration of the do/while around
\* waitpid(pid, &status, WUNTRACED); the call blocks while the child runs.
Wait(p) ==
  LET r == proc[p]
      c == r.pid
  IN /\ r.pc = "launch_wait"
     /\ \E w \in waitpid(c) :
          LET seen == IF w = "stopped"
                        THEN [proc[c] EXCEPT !.stopSeen = TRUE]
                        ELSE [proc[c] EXCEPT !.pc = "reaped"]
          IN IF launch_wait_again(w)
               THEN proc' = [proc EXCEPT ![c] = seen,
                                         ![p] = [r EXCEPT !.retried = TRUE]]
               ELSE proc' = [proc EXCEPT
                      ![c] = seen,
                      ![p] = execute_returns([r EXCEPT !.pid = 0],
                                             tash_launch_return("waited"))]
     /\ UNCHANGED <<stdin, offset, executed, builtins, forked>>

\* free(line) without free(args)
loop_free_line_only(r) == [r EXCEPT !.line_mem = "freed"]

\* free(ptr) on a block: released, or released a second time
free(m) == IF m = "live" THEN "freed" ELSE "double_free"

\* free(line); free(args);
loop_free(r) ==
  [r EXCEPT !.line_mem = free(r.line_mem), !.args_mem = free(r.args_mem)]

\* The end of an iteration of tash_loop: free(line); free(args);
\* while (status).  When the loop ends main returns EXIT_SUCCESS.
LoopEnd(p) ==
  LET r == loop_free(proc[p])
  IN /\ r.pc = "free"
     /\ proc' = [proc EXCEPT ![p] =
          IF r.status # 0
            THEN [r EXCEPT !.pc = "prompt", !.buffer = <<>>, !.args = <<>>,
                           !.position = 0, !.bufsize = 0, !.chdir = "none",
                           !.called = "none", !.retried = FALSE]
            ELSE Exited(r, EXIT_SUCCESS, "main_return")]
     /\ UNCHANGED <<stdin, offset, executed, builtins, forked>>

(***************************************************************************)
(* The external program a child has become                                 *)
(***************************************************************************)
ExtExit(c) ==
  /\ proc[c].pc = "external"
  /\ \E code \in ExtCodes :
       proc' = [proc EXCEPT ![c] = Exited(proc[c], code, "external")]
  /\ UNCHANGED <<stdin, offset, executed, builtins, forked>>

ExtKill(c) ==
  /\ proc[c].pc \in {"external", "ext_stopped"}
  /\ proc' = [proc EXCEPT ![c] = Signaled(proc[c], "killed")]
  /\ UNCHANGED <<stdin, offset, executed, builtins, forked>>

ExtStop(c) ==
  /\ proc[c].pc = "external"
  /\ proc' = [proc EXCEPT ![c] = [proc[c] EXCEPT !.pc = "ext_stopped",
                                                 !.stopSeen = FALSE]]
  /\ UNCHANGED <<stdin, offset, executed, builtins, forked>>

ExtCont(c) ==
  /\ proc[c].pc = "ext_stopped"
  /\ proc' = [proc EXCEPT ![c] = [proc[c] EXCEPT !.pc = "external",
                                                 !.stopSeen = FALSE]]
  /\ UNCHANGED <<stdin, offset, executed, builtins, forked>>

(***************************************************************************)
(* The interpreter and its children                                        *)
(***************************************************************************)
Next ==
  \E p \in Procs :
    \/ Prompt(p)
    \/ ReadChar(p)
    \/ SplitLine(p)
    \/ Execute(p)
    \/ ChildExec(p)
    \/ Wait(p)
    \/ LoopEnd(p)
    \/ ExtExit(p)
    \/ ExtKill(p)
    \/ ExtStop(p)
    \/ ExtCont(p)

Spec == Init /\ [][Next]_vars

(***************************************************************************)
(* One line through the tokenizer and the dispatcher: the interpreter has  *)
(* just read a line; every line over a small alphabet is tried.            *)
(***************************************************************************)
\* The five delimiters and the letters a, b
LineAlphabet == {SP, TAB, CR, LF, BEL, 97, 98}

Lines == UNION { [1 .. n -> LineAlphabet] : n \in 0 .. MaxSplitLen }

\* tash_read_line has returned the line l (buffer[position] = '\0')
LineRead(l) ==
  [MainProc EXCEPT !.pc = "split_line", !.buffer = l \o <<NUL>>,
                   !.position = Len(l), !.bufsize = tash_RL_BUFSIZE,
                   !.line_mem = "live"]

LineInit ==
  \E l \in Lines :
    /\ stdin = l \o <<LF>>
    /\ offset = Len(l) + 1
    /\ proc = [p \in Procs |-> IF p = 1 THEN LineRead(l) ELSE NoProc]
    /\ executed = 0
    /\ builtins = 0
    /\ forked = 0

LineNext == SplitLine(1) \/ Execute(1)

LineSpec == LineInit /\ [][LineNext]_vars

(***************************************************************************)
(* Properties of the interpreter                                           *)
(***************************************************************************)
Gone(p) == proc[p].pc \in {"terminated", "reaped"}

\* The control points of the read-tokenize-dispatch cycle of tash_loop
CyclePcs == {"prompt", "read_line", "split_line", "execute"}

\* C1: once tash_read_line has met end-of-input, in whatever iteration and
\* process, that process has terminated by exiting: it is not back in the
\* reader's loop, about to read the closed stream again.
C1_EofTerminates ==
  \A p \in Procs :
    proc[p].eofSeen => Gone(p) /\ proc[p].term = "exited"

\* C2: when the very first read meets end-of-input (standard input is
\* empty), the interpreter has stopped and nothing was dispatched: no call
\* of tash_execute, no builtin, no child.
C2_FirstReadEofStops ==
  (stdin = <<>> /\ proc[1].eofSeen)
    => /\ proc[1].pc = "terminated"
       /\ executed = 0 /\ builtins = 0 /\ forked = 0

\* C3: tash_execute on a vector whose first token is "exit" returns 0
\* (Terminate) to tash_loop, whatever follows the first token.
C3_ExitYieldsTerminate ==
  [][\A p \in Procs :
       (/\ proc[p].pc = "execute"
        /\ proc[p].args # <<>>
        /\ proc[p].args[1] = S_exit
        /\ proc'[p].pc # "execute")
       => proc'[p].pc = "free" /\ proc'[p].status = 0]_vars

\* C4: a process of the interpreter that has terminated because of the exit
\* builtin or because of end-of-input has exit status EXIT_SUCCESS.
C4_ExitStatusSuccess ==
  \A p \in Procs :
    (Gone(p) /\ (proc[p].why = "exit_builtin" \/ proc[p].eofSeen))
      => proc[p].term = "exited" /\ proc[p].code = EXIT_SUCCESS

\* C5: a child of tash_launch in which execvp has failed has terminated
\* with a failure status; it is never back in tash_loop.
C5_ExecFailureEndsChild ==
  \A p \in Procs :
    proc[p].execFailed
      => Gone(p) /\ proc[p].term = "exited" /\ proc[p].code = EXIT_FAILURE

\* C6: while a process is blocked in the waitpid of tash_launch, no process
\* is in the read-tokenize-dispatch cycle.
C6_NoCycleWhileWaiting ==
  \A p \in Procs :
    proc[p].pc = "launch_wait"
      => \A q \in Procs : proc[q].pc \notin CyclePcs

\* A process is inside tash_launch: about to fork, in the child before
\* execvp, or in the parent's wait
InLaunch(p) ==
  \/ proc[p].pc \in {"launch_child", "launch_wait"}
  \/ /\ proc[p].pc = "execute"
     /\ proc[p].args # <<>>
     /\ builtin_index(proc[p].args) = 0

\* C7: whenever tash_launch returns to tash_execute (fork failed, execvp
\* failed in the child, or the parent's wait ended on a child that exited or
\* was signaled) it returns 1, and the iteration that ends with that
\* status goes back to the prompt.
C7_LaunchYieldsContinue ==
  [][\A p \in Procs :
       /\ (InLaunch(p) /\ proc'[p].pc = "free") => proc'[p].status = 1
       /\ (/\ proc[p].pc = "free"
           /\ proc[p].args # <<>>
           /\ builtin_index(proc[p].args) = 0
           /\ proc'[p].pc # "free")
          => proc'[p].pc = "prompt"]_vars

\* C7 witness: a parent is back from tash_launch with status 1 after its
\* child was killed by a signal
C7_Witness ==
  \E p, c \in Procs :
    /\ proc[p].pc = "free" /\ proc[p].status = 1
    /\ proc[p].args = <<S_ls>>
    /\ proc[c].pc = "reaped" /\ proc[c].term = "signaled"

(***************************************************************************)
(* Properties of the tokenizer and of the dispatch of one line             *)
(***************************************************************************)
\* The delimiters the specification names: space, \t, \r, \n, \a
Delimiters == {32, 9, 13, 10, 7}

OnlyDelimiters(s) == \A i \in 1 .. Len(s) : s[i] \in Delimiters

\* C8: a line made only of delimiters (or empty) is tokenized to the empty
\* vector, and its dispatch only returns 1: no builtin is invoked, no
\* process is forked, and nothing else of the process (its working
\* directory included) or of any other process changes.
C8_BlankLineIsNoOp ==
  [][\A p \in Procs :
       LET r == proc[p] IN
       /\ (/\ r.pc = "split_line"
           /\ OnlyDelimiters(CStr(r.buffer))
           /\ proc'[p].pc = "execute")
          => proc'[p].args = <<>>
       /\ (/\ r.pc = "execute"
           /\ OnlyDelimiters(CStr(r.buffer))
           /\ proc'[p].pc # "execute")
          => /\ proc' = [proc EXCEPT ![p] = [r EXCEPT !.pc = "free",
                                                       !.status = 1]]
             /\ proc'[p].cwd = r.cwd
             /\ builtins' = builtins
             /\ forked' = forked]_vars

\* C8 witness: the line " \t\r\a" has been dispatched
C8_Witness ==
  /\ proc[1].pc = "free"
  /\ CStr(proc[1].buffer) = <<SP, TAB, CR, BEL>>
  /\ executed = 1

\* The maximal runs of non-delimiters of s: a run starts at i when s[i] is
\* no delimiter and i is the first index or follows a delimiter, and ends
\* at the last index before the next delimiter or the end of s.
RunStarts(s) ==
  { i \in 1 .. Len(s) :
      s[i] \notin Delimiters /\ (i = 1 \/ s[i - 1] \in Delimiters) }

RunEnd(s, i) ==
  CHOOSE j \in i .. Len(s) :
    /\ \A k \in i .. j : s[k] \notin Delimiters
    /\ j = Len(s) \/ s[j + 1] \in Delimiters

\* tokens is exactly the maximal runs of s, in their order of appearance
IsMaximalRuns(s, tokens) ==
  /\ Len(tokens) = Cardinality(RunStarts(s))
  /\ \A i \in RunStarts(s) :
       tokens[Cardinality({ j \in RunStarts(s) : j <= i })]
         = SubSeq(s, i, RunEnd(s, i))

\* The processes that hold the result of tash_split_line for their line
HasTokens(p) ==
  proc[p].pc \in {"execute", "free", "launch_wait", "launch_child"}

\* C9: the vector tash_split_line returns is exactly the maximal runs of
\* non-delimiter characters of the line, in order; no token is empty and no
\* token contains a delimiter.
C9_TokensAreMaximalRuns ==
  \A p \in Procs :
    HasTokens(p)
      => /\ IsMaximalRuns(CStr(proc[p].buffer), proc[p].args)
         /\ \A k \in 1 .. Len(proc[p].args) :
              /\ proc[p].args[k] # <<>>
              /\ \A i \in 1 .. Len(proc[p].args[k]) :
                   proc[p].args[k][i] \notin Delimiters

\* C9 witness: "a \tb" (the delimiters mixed, a run of two) was tokenized
\* to <<"a", "b">>, and "\aab\n" to <<"ab">>
C9_Witness ==
  /\ proc[1].pc = "execute"
  /\ \/ /\ CStr(proc[1].buffer) = <<97, SP, TAB, 98>>
        /\ proc[1].args = << <<97>>, <<98>> >>
     \/ /\ CStr(proc[1].buffer) = <<BEL, 97, 98, LF>>
        /\ proc[1].args = << <<97, 98>> >>

\* The tokens joined with single spaces
RECURSIVE Join(_)
Join(v) ==
  IF v = <<>> THEN <<>>
  ELSE IF Len(v) = 1 THEN v[1]
  ELSE v[1] \o <<SP>> \o Join(Tail(v))

\* The non-empty words over the letters a, b of length n
RECURSIVE WordsOfLen(_)
WordsOfLen(n) ==
  IF n = 1 THEN { <<97>>, <<98>> }
  ELSE { <<c>> \o w : c \in {97, 98}, w \in WordsOfLen(n - 1) }

\* The token vectors whose join has length n
RECURSIVE VectorsOfJoinLen(_)
VectorsOfJoinLen(n) ==
  IF n = 0 THEN { <<>> }
  ELSE { <<w>> : w \in WordsOfLen(n) }
       \cup UNION { { <<w>> \o v : w \in WordsOfLen(k),
                                   v \in VectorsOfJoinLen(n - k - 1) \ { <<>> } }
                    : k \in 1 .. n - 2 }

\* C10: for every vector v of non-empty, delimiter-free tokens, tokenizing
\* the join of v with single spaces gives v back.
\* (a join is made of letters and spaces, and a join of n characters can
\* only be the join of a vector of VectorsOfJoinLen(n))
C10_SplitOfJoin ==
  \A p \in Procs :
    LET s == CStr(proc[p].buffer) IN
    (proc[p].pc = "execute" /\ \A i \in 1 .. Len(s) : s[i] \in {97, 98, SP})
      => \A v \in VectorsOfJoinLen(Len(s)) : s = Join(v) => proc[p].args = v

\* C10 witness: the join of <<"a", "b", "a">>, and that of <<"ab", "b">>,
\* was tokenized back to the vector
C10_Witness ==
  /\ proc[1].pc = "execute"
  /\ \/ /\ CStr(proc[1].buffer) = Join(<< <<97>>, <<98>>, <<97>> >>)
        /\ proc[1].args = << <<97>>, <<98>>, <<97>> >>
     \/ /\ CStr(proc[1].buffer) = Join(<< <<97, 98>>, <<98>> >>)
        /\ proc[1].args = << <<97, 98>>, <<98>> >>

(***************************************************************************)
(* Properties of the builtins and of the dispatcher                        *)
(***************************************************************************)
\* Process p leaves tash_execute in this step, having entered it with a
\* vector whose first token is name
Dispatched(p, name) ==
  /\ proc[p].pc = "execute"
  /\ proc[p].args # <<>>
  /\ proc[p].args[1] = name
  /\ proc'[p].pc # "execute"

\* C11: cd returns 1 to tash_loop; when a path was given and chdir
\* succeeded the working directory is that path; with no argument (chdir is
\* not called) or when chdir failed it is what it was.
C11_CdOutcome ==
  [][\A p \in Procs :
       Dispatched(p, S_cd)
         => /\ proc'[p].pc = "free" /\ proc'[p].status = 1
            /\ Len(proc[p].args) < 2 => proc'[p].chdir = "none"
            /\ IF Len(proc[p].args) >= 2 /\ proc'[p].chdir = "ok"
                 THEN proc'[p].cwd = proc[p].args[2]
                 ELSE proc'[p].cwd = proc[p].cwd]_vars

\* C11 witness: "cd  d" has changed the working directory from "/" to "d",
\* and after it a failed or argument-less cd has left it there
C11_Witness ==
  \E p \in Procs :
    /\ proc[p].pc = "free" /\ proc[p].status = 1
    /\ proc[p].cwd = S_d
    /\ \/ proc[p].args = <<S_cd, S_d>> /\ proc[p].chdir = "failed"
       \/ proc[p].args = <<S_cd>>

(***************************************************************************)
(* Properties of the allocations                                           *)
(***************************************************************************)
\* C12: an allocation failure ends the process at once: no process goes on
\* running with a NULL line buffer, and none dies of a write through a NULL
\* buffer or token array.
C12_AllocFailureIsFatal ==
  \A p \in Procs :
    /\ proc[p].buffer_null => Gone(p)
    /\ proc[p].why # "segv"

(***************************************************************************)
(* The reader on long lines: one line whose length is at, just below or    *)
(* just above a multiple of tash_RL_BUFSIZE, read character by character.  *)
(***************************************************************************)
\* A line of n characters with no newline, no two neighbours equal
LongLine(n) == [i \in 1 .. n |-> 97 + (i % 5)]

ReadLens ==
  { k * tash_RL_BUFSIZE + d : k \in 0 .. MaxGrow, d \in {0 - 1, 0, 1} }
    \cap Nat

ReadInit ==
  /\ stdin \in { LongLine(n) \o <<LF>> : n \in ReadLens }
  /\ offset = 0
  /\ proc = [p \in Procs |-> IF p = 1 THEN MainProc ELSE NoProc]
  /\ executed = 0
  /\ builtins = 0
  /\ forked = 0

ReadNext == Prompt(1) \/ ReadChar(1)

ReadSpec == ReadInit /\ [][ReadNext]_vars

\* C13: when tash_read_line returns, the buffer holds exactly the
\* characters that came before the newline, in order, and then the
\* terminating NUL at index position.
C13_LineReadWhole ==
  \A p \in Procs :
    proc[p].pc = "split_line"
      => /\ stdin[offset] = LF
         /\ proc[p].position = offset - 1
         /\ proc[p].buffer = SubSeq(stdin, 1, offset - 1) \o <<NUL>>

\* C13 witness: a line of exactly two buffers' length has been returned,
\* after two growths
C13_Witness ==
  /\ proc[1].pc = "split_line"
  /\ proc[1].position = 2 * tash_RL_BUFSIZE
  /\ proc[1].bufsize = 3 * tash_RL_BUFSIZE
  /\ proc[1].buffer = LongLine(2 * tash_RL_BUFSIZE) \o <<NUL>>

\* C18: while the buffer is allocated, the index position at which the
\* next iteration of the reader writes (a character or the NUL) is within
\* the capacity bufsize.
C18_ReaderWritesInBounds ==
  \A p \in Procs :
    (proc[p].pc = "read_line" /\ ~proc[p].buffer_null)
      => 0 <= proc[p].position /\ proc[p].position < proc[p].bufsize

\* C18 witness: the buffer was full and has just grown; the next write is
\* at index tash_RL_BUFSIZE
C18_Witness ==
  /\ proc[1].pc = "read_line"
  /\ ~proc[1].buffer_null
  /\ proc[1].position = tash_RL_BUFSIZE
  /\ proc[1].bufsize = 2 * tash_RL_BUFSIZE
  /\ Len(proc[1].buffer) = tash_RL_BUFSIZE

\* The function the dispatcher has to call for a first token
Callee(name) ==
  IF name = S_cd THEN "cd"
  ELSE IF name = S_help THEN "help"
  ELSE IF name = S_exit THEN "exit"
  ELSE "tash_launch"

C15_StopsIffTerminate ==
  [][\A p \in Procs :
       LET r == proc[p]
           t == proc'[p]
       IN /\ (/\ r.pc \in CyclePcs \cup {"free", "launch_wait"}
              /\ t.pc = "terminated"
              /\ t.term = "exited")
               => r.pc = "free" /\ r.status = 0
          /\ (r.pc = "free" /\ t # r)
               => IF r.status = 0 THEN t.pc = "terminated"
                                  ELSE t.pc = "prompt"
          /\ Gone(p) => t.pc \in {"terminated", "reaped"}]_vars

TokLine(n) == [i \in 1 .. 2 * n |-> IF i % 2 = 1 THEN 97 ELSE SP]

TokInit ==
  \E n \in 0 .. MaxTokens :
    /\ stdin = TokLine(n) \o <<LF>>
    /\ offset = 2 * n + 1
    /\ proc = [p \in Procs |-> IF p = 1 THEN LineRead(TokLine(n)) ELSE NoProc]
    /\ executed = 0
    /\ builtins = 0
    /\ forked = 0

TokNext == SplitEnter(1) \/ SplitStep(1)

TokSpec == TokInit /\ [][TokNext]_vars

\* C19: in the tokenizer's loop, allocations having succeeded, the index
\* position = Len(tokens) of the next write, a token or the NULL sentinel,
\* is from 0 and below the capacity bufsize.
C19_TokenWritesInBounds ==
  \A p \in Procs :
    proc[p].pc = "split_loop"
      => /\ 0 <= Len(proc[p].split.tokens)
         /\ Len(proc[p].split.tokens) < proc[p].split.bufsize

\* C19 witness: 64 tokens were stored, the array grew, and the sentinel
\* went to index 64
C19_Witness ==
  /\ proc[1].pc = "execute"
  /\ Len(proc[1].args) = tash_TOK_BUFSIZE
  /\ proc[1].split.done
  /\ proc[1].split.bufsize = 2 * tash_TOK_BUFSIZE

====
